---------------------------- MODULE Spec2Model ----------------------------
(***************************************************************************)
(* Car-loan affordability calculator (src/car_affordability.py).           *)
(*                                                                         *)
(* The two functions with algorithmic content are modelled:                *)
(*   calculate_loan_details  (EMI and amortization schedule)              *)
(*   format_number           (currency rendering)                         *)
(*                                                                         *)
(* Python's float is IEEE 754 binary64.  Every arithmetic operation of the *)
(* source is modelled with its binary64 result: the exact result of the    *)
(* operation, rounded to nearest-even at 53 significant bits.  Since the   *)
(* model checker's integers are 32 bits wide, significands are arbitrary   *)
(* precision naturals held as little-endian sequences of 15-bit limbs.     *)
(***************************************************************************)
EXTENDS Integers, Sequences, FiniteSets, TLC

(***************************************************************************)
(* Arbitrary-precision naturals: little-endian limbs, no high zero limb,   *)
(* zero is the empty sequence.                                             *)
(***************************************************************************)
Base == 2^15

Max2(x, y) == IF x >= y THEN x ELSE y

Min2(x, y) == IF x <= y THEN x ELSE y

MaxOf(S) == CHOOSE i \in S : \A j \in S : j <= i

MinOf(S) == CHOOSE i \in S : \A j \in S : i <= j

Limb(a, i) == IF i <= Len(a) THEN a[i] ELSE 0

BTrim(a) ==
    LET nz == {i \in 1..Len(a) : a[i] # 0}
    IN  IF nz = {} THEN <<>> ELSE SubSeq(a, 1, MaxOf(nz))

RECURSIVE BOfNat(_)
BOfNat(n) == IF n = 0 THEN <<>> ELSE <<n % Base>> \o BOfNat(n \div Base)

(* The carry-propagating operations split their limb range in halves, the  *)
(* low half first and its carry handed to the high half, so that the depth *)
(* of the recursion is logarithmic in the number of limbs.                 *)

\* limbs i..j of a + b + c: [v: the limbs, c: the carry out]
RECURSIVE BAddC(_, _, _, _, _)
BAddC(a, b, i, j, c) ==
    IF i > j THEN [v |-> <<>>, c |-> c]
    ELSE IF i = j
    THEN LET s == Limb(a, i) + Limb(b, i) + c
         IN  [v |-> <<s % Base>>, c |-> s \div Base]
    ELSE LET h  == (i + j) \div 2
             lo == BAddC(a, b, i, h, c)
             hi == BAddC(a, b, h + 1, j, lo.c)
         IN  [v |-> lo.v \o hi.v, c |-> hi.c]

BAdd(a, b) ==
    LET r == BAddC(a, b, 1, Max2(Len(a), Len(b)), 0)
    IN  IF r.c = 0 THEN r.v ELSE r.v \o <<r.c>>

\* limbs i..j of a - b - c for a >= b: [v: the limbs, c: the borrow out]
RECURSIVE BSubC(_, _, _, _, _)
BSubC(a, b, i, j, c) ==
    IF i > j THEN [v |-> <<>>, c |-> c]
    ELSE IF i = j
    THEN LET d == a[i] - Limb(b, i) - c
         IN  IF d < 0 THEN [v |-> <<d + Base>>, c |-> 1] ELSE [v |-> <<d>>, c |-> 0]
    ELSE LET h  == (i + j) \div 2
             lo == BSubC(a, b, i, h, c)
             hi == BSubC(a, b, h + 1, j, lo.c)
         IN  [v |-> lo.v \o hi.v, c |-> hi.c]

BSub(a, b) == BTrim(BSubC(a, b, 1, Len(a), 0).v)

\* -1, 0, 1 as a < b, a = b, a > b
BCmp(a, b) ==
    IF Len(a) > Len(b) THEN 1
    ELSE IF Len(a) < Len(b) THEN -1
    ELSE IF a = b THEN 0
    ELSE LET top == MaxOf({i \in 1..Len(a) : a[i] # b[i]})
         IN  IF a[top] > b[top] THEN 1 ELSE -1

\* limbs i..j of a * d + c for a limb d: [v: the limbs, c: the carry out]
RECURSIVE BMulSmallC(_, _, _, _, _)
BMulSmallC(a, d, i, j, c) ==
    IF i > j THEN [v |-> <<>>, c |-> c]
    ELSE IF i = j
    THEN LET p == a[i] * d + c
         IN  [v |-> <<p % Base>>, c |-> p \div Base]
    ELSE LET h  == (i + j) \div 2
             lo == BMulSmallC(a, d, i, h, c)
             hi == BMulSmallC(a, d, h + 1, j, lo.c)
         IN  [v |-> lo.v \o hi.v, c |-> hi.c]

\* a * d + c for a limb d and a carry c
BMulAdd(a, d, c) ==
    LET r == BMulSmallC(a, d, 1, Len(a), c)
    IN  BTrim(IF r.c = 0 THEN r.v ELSE r.v \o <<r.c>>)

BMulSmall(a, d) == BMulAdd(a, d, 0)

\* a shifted up by k limbs
BShlLimbs(a, k) == IF a = <<>> THEN <<>> ELSE [i \in 1..k |-> 0] \o a

\* a * (limbs i..j of b), schoolbook
RECURSIVE BMulRange(_, _, _, _)
BMulRange(a, b, i, j) ==
    IF i = j THEN BMulSmall(a, b[i])
    ELSE LET h == (i + j) \div 2
         IN  BAdd(BMulRange(a, b, i, h), BShlLimbs(BMulRange(a, b, h + 1, j), h + 1 - i))

BMul(a, b) == IF a = <<>> \/ b = <<>> THEN <<>> ELSE BMulRange(a, b, 1, Len(b))

Reverse(a) == [i \in 1..Len(a) |-> a[Len(a) + 1 - i]]

\* limbs j down to i of a divided by a limb d, r the remainder so far:
\* [q: the quotient's limbs, high limb first, r: the remainder]
RECURSIVE BDivSmallC(_, _, _, _, _)
BDivSmallC(a, d, i, j, r) ==
    IF i > j THEN [q |-> <<>>, r |-> r]
    ELSE IF i = j
    THEN LET cur == r * Base + a[i]
         IN  [q |-> <<cur \div d>>, r |-> cur % d]
    ELSE LET h  == (i + j) \div 2
             hi == BDivSmallC(a, d, h + 1, j, r)
             lo == BDivSmallC(a, d, i, h, hi.r)
         IN  [q |-> hi.q \o lo.q, r |-> lo.r]

BDivSmall(a, d) ==
    LET x == BDivSmallC(a, d, 1, Len(a), 0) IN [q |-> BTrim(Reverse(x.q)), r |-> x.r]

RECURSIVE SmallBitLen(_)
SmallBitLen(x) == IF x = 0 THEN 0 ELSE 1 + SmallBitLen(x \div 2)

BitLen(a) == IF a = <<>> THEN 0 ELSE (Len(a) - 1) * 15 + SmallBitLen(a[Len(a)])

\* bit i (from 0) of a
BBit(a, i) == (Limb(a, i \div 15 + 1) \div 2^(i % 15)) % 2

\* whether the low s bits of a are all zero
BLowZero(a, s) ==
    /\ \A i \in 1..Min2(s \div 15, Len(a)) : a[i] = 0
    /\ Limb(a, s \div 15 + 1) % 2^(s % 15) = 0

BShl(a, s) ==
    IF a = <<>> THEN <<>>
    ELSE BShlLimbs(BMulSmall(a, 2^(s % 15)), s \div 15)

BShr(a, s) ==
    IF s \div 15 >= Len(a) THEN <<>>
    ELSE BDivSmall(SubSeq(a, s \div 15 + 1, Len(a)), 2^(s % 15)).q

RECURSIVE SmallTz(_)
SmallTz(x) == IF x % 2 = 1 THEN 0 ELSE 1 + SmallTz(x \div 2)

\* number of trailing zero bits of a nonzero a
BTz(a) ==
    LET low == MinOf({i \in 1..Len(a) : a[i] # 0})
    IN  (low - 1) * 15 + SmallTz(a[low])

\* the largest digit q in lo..hi with q * d <= cur
RECURSIVE BDigit(_, _, _, _)
BDigit(cur, d, lo, hi) ==
    IF lo = hi THEN lo
    ELSE LET mid == (lo + hi + 1) \div 2
         IN  IF BCmp(BMulSmall(d, mid), cur) <= 0
             THEN BDigit(cur, d, mid, hi)
             ELSE BDigit(cur, d, lo, mid - 1)

\* limbs j down to i of n divided by d (long division), r the remainder so far:
\* [q: the quotient's limbs, high limb first, r: the remainder]
RECURSIVE BDivModC(_, _, _, _, _)
BDivModC(n, d, i, j, r) ==
    IF i > j THEN [q |-> <<>>, r |-> r]
    ELSE IF i = j
    THEN LET cur == BTrim(<<n[i]>> \o r)
             q   == BDigit(cur, d, 0, Base - 1)
         IN  [q |-> <<q>>, r |-> BSub(cur, BMulSmall(d, q))]
    ELSE LET h  == (i + j) \div 2
             hi == BDivModC(n, d, h + 1, j, r)
             lo == BDivModC(n, d, i, h, hi.r)
         IN  [q |-> hi.q \o lo.q, r |-> lo.r]

\* quotient and remainder of n by d (d nonzero)
BDivMod(n, d) ==
    LET x == BDivModC(n, d, 1, Len(n), <<>>) IN [q |-> BTrim(Reverse(x.q)), r |-> x.r]

\* a^n by squaring
RECURSIVE BPow(_, _)
BPow(a, n) ==
    IF n = 0 THEN <<1>>
    ELSE IF n % 2 = 0 THEN LET h == BPow(a, n \div 2) IN BMul(h, h)
    ELSE BMul(BPow(a, n - 1), a)

(***************************************************************************)
(* Python float: IEEE 754 binary64.  A finite value is (-1)^s * m * 2^e    *)
(* with m odd (or m zero and e = 0), so that equal values have one         *)
(* representation apart from the sign of zero.                             *)
(***************************************************************************)
Precision == 53

MinExp == -1074

MaxExp == 1024

Zero(s) == [k |-> "fin", s |-> s, m |-> <<>>, e |-> 0]

Inf(s) == [k |-> "inf", s |-> s, m |-> <<>>, e |-> 0]

NaN == [k |-> "nan", s |-> 0, m |-> <<>>, e |-> 0]

IsZero(x) == x.k = "fin" /\ x.m = <<>>

\* the value (-1)^s * n * 2^e, exactly representable, in canonical form
Canon(s, n, e) ==
    IF n = <<>> THEN Zero(s)
    ELSE IF BitLen(n) + e > MaxExp THEN Inf(s)
    ELSE LET tz == BTz(n) IN [k |-> "fin", s |-> s, m |-> BShr(n, tz), e |-> e + tz]

\* (-1)^s * n * 2^e rounded to the nearest binary64, ties to even
Round(s, n, e) ==
    LET sh == Max2(BitLen(n) - Precision, MinExp - e)
    IN  IF n = <<>> \/ sh <= 0 THEN Canon(s, n, e)
        ELSE LET q  == BShr(n, sh)
                 up == /\ BBit(n, sh - 1) = 1
                       /\ (~BLowZero(n, sh - 1) \/ BBit(q, 0) = 1)
             IN  Canon(s, IF up THEN BAdd(q, <<1>>) ELSE q, e + sh)

\* int -> float (exact for |n| < 2^53)
FromInt(n) == IF n < 0 THEN Canon(1, BOfNat(-n), 0) ELSE Canon(0, BOfNat(n), 0)

FNeg(x) == [x EXCEPT !.s = 1 - x.s]

FAbs(x) == [x EXCEPT !.s = 0]

\* comparison of the magnitudes of two finite values: -1, 0, 1
MagCmp(x, y) ==
    IF x.m = <<>> \/ y.m = <<>>
    THEN (IF x.m = <<>> THEN 0 ELSE 1) - (IF y.m = <<>> THEN 0 ELSE 1)
    ELSE LET tx == BitLen(x.m) + x.e
             ty == BitLen(y.m) + y.e
             e  == Min2(x.e, y.e)
         IN  IF tx > ty THEN 1
             ELSE IF tx < ty THEN -1
             ELSE BCmp(BShl(x.m, x.e - e), BShl(y.m, y.e - e))

\* x < y as Python compares floats (false when either is nan)
FLt(x, y) ==
    IF x.k = "nan" \/ y.k = "nan" THEN FALSE
    ELSE IF x.k = "inf" THEN x.s = 1 /\ ~(y.k = "inf" /\ y.s = 1)
    ELSE IF y.k = "inf" THEN y.s = 0
    ELSE IF IsZero(x) /\ IsZero(y) THEN FALSE
    ELSE IF x.s # y.s THEN x.s = 1
    ELSE IF x.s = 0 THEN MagCmp(x, y) < 0
    ELSE MagCmp(x, y) > 0

\* x == y as Python compares floats (-0.0 == 0.0, nan != nan)
FEq(x, y) ==
    /\ x.k # "nan" /\ y.k # "nan"
    /\ ~FLt(x, y) /\ ~FLt(y, x)

FLe(x, y) == FLt(x, y) \/ FEq(x, y)

\* the product of two finite values as a real number, (-1)^s * n * 2^e
Product(x, y) == [s |-> (x.s + y.s) % 2, n |-> BMul(x.m, y.m), e |-> x.e + y.e]

FMul(x, y) ==
    LET s == (x.s + y.s) % 2
        p == Product(x, y)
    IN  IF x.k = "nan" \/ y.k = "nan" THEN NaN
        ELSE IF x.k = "inf" \/ y.k = "inf"
             THEN IF IsZero(x) \/ IsZero(y) THEN NaN ELSE Inf(s)
        ELSE Round(p.s, p.n, p.e)

\* the sum of two finite values as a real number, (-1)^s * n * 2^e; the sum
\* of two values of opposite sign and equal magnitude is +0.0
Sum(x, y) ==
    LET e  == Min2(x.e, y.e)
        nx == BShl(x.m, x.e - e)
        ny == BShl(y.m, y.e - e)
        c  == BCmp(nx, ny)
    IN  IF x.s = y.s THEN [s |-> x.s, n |-> BAdd(nx, ny), e |-> e]
        ELSE IF c = 0 THEN [s |-> 0, n |-> <<>>, e |-> 0]
        ELSE IF c > 0 THEN [s |-> x.s, n |-> BSub(nx, ny), e |-> e]
        ELSE [s |-> y.s, n |-> BSub(ny, nx), e |-> e]

FAdd(x, y) ==
    LET r == Sum(x, y)
    IN  IF x.k = "nan" \/ y.k = "nan" THEN NaN
        ELSE IF x.k = "inf"
             THEN IF y.k = "inf" /\ y.s # x.s THEN NaN ELSE x
        ELSE IF y.k = "inf" THEN y
        ELSE Round(r.s, r.n, r.e)

FSub(x, y) == FAdd(x, FNeg(y))

\* x / y for y nonzero (Python raises ZeroDivisionError before dividing by zero)
FDiv(x, y) ==
    LET s == (x.s + y.s) % 2
    IN  IF x.k = "nan" \/ y.k = "nan" THEN NaN
        ELSE IF x.k = "inf" THEN IF y.k = "inf" THEN NaN ELSE Inf(s)
        ELSE IF y.k = "inf" \/ x.m = <<>> THEN Zero(s)
        ELSE LET k  == Max2(0, Precision + 2 + BitLen(y.m) - BitLen(x.m)) + 1
                 qr == BDivMod(BShl(x.m, k), y.m)
                 n  == BMulAdd(qr.q, 2, IF qr.r = <<>> THEN 0 ELSE 1)
             IN  Round(s, n, x.e - y.e - k - 1)

\* x ** n for an int n >= 0 (C pow: the exact power, rounded; inf on overflow)
FPow(x, n) ==
    IF n = 0 THEN FromInt(1)
    ELSE IF x.k # "fin" THEN x
    ELSE IF x.m = <<>> THEN Zero(0)
    ELSE IF (BitLen(x.m) + x.e - 1) * n >= MaxExp THEN Inf((x.s * n) % 2)
    ELSE Round((x.s * n) % 2, BPow(x.m, n), x.e * n)

(***************************************************************************)
(* calculate_loan_details                                                  *)
(***************************************************************************)

\* the largest loan term, in years, the model calls the function with
MaxYears == 2

\* car_price: the least and the default value of the "Car Price" input
CarPrices == {100000, 500000}

\* down_payment_percentage is a percentage / 100: the slider's default 20,
\* no down payment, and the values 100 and 150 for fractions >= 1
DownPaymentPercents == {0, 20, 100, 150}

\* loan_term_years; 0 is the empty term
LoanTermYears == 0..MaxYears

\* value / 100 as main() computes a fraction from a percentage
Percent(value) == FDiv(FromInt(value), FromInt(100))

\* loan_interest_rate is a percentage / 100: the slider's default 8.0, the
\* zero rate, 10000 for a rate at which binary64 rounding shows in the
\* schedule; and the rate 1e15, at which (1 + rate / 12)**24 overflows
InterestRates == {Percent(0), Percent(8), Percent(10000), FPow(FromInt(10), 15)}

\* LoanAmount with the down payment itself taken for the share that is financed
LoanAmountOfDownPayment(car_price, down_payment_percentage) ==
    FMul(FromInt(car_price), down_payment_percentage)

\* line 23
LoanAmount(car_price, down_payment_percentage) ==
    FMul(FromInt(car_price), FSub(FromInt(1), down_payment_percentage))

\* line 24
AnnualInterest(loan_interest_rate) == FDiv(loan_interest_rate, FromInt(12))

\* line 25
Months(loan_term_years) == loan_term_years * 12

\* line 28: (1 + annual_interest)**months
Growth(annual_interest, n) == FPow(FAdd(FromInt(1), annual_interest), n)

\* line 28: the numerator and the denominator of the EMI
EmiNumerator(la, ai, n) == FMul(FMul(la, ai), Growth(ai, n))

EmiDenominator(ai, n) == FSub(Growth(ai, n), FromInt(1))

\* line 46: max(0, remaining_balance); the int 0 is held as the float 0.0
Max0(x) == IF FLt(Zero(0), x) THEN x ELSE Zero(0)

\* InterestPayment with the interest charged on the balance floored at zero
InterestOnFlooredBalance(rb, ai) == FMul(Max0(rb), ai)

\* line 36
InterestPayment(rb, ai) == FMul(rb, ai)

\* line 37
PrincipalPayment(e, interest_payment) == FSub(e, interest_payment)

\* lines 41-47
Row(mo, e, principal_payment, interest_payment, rb) ==
    [Month     |-> mo,
     EMI       |-> e,
     Principal |-> principal_payment,
     Interest  |-> interest_payment,
     Balance   |-> Max0(rb)]

\* InRange with the end of range(1, months), which leaves out the last month
InRangeExclusive(mo, n) == mo < n

\* line 35: whether range(1, months + 1) still has the value mo
InRange(mo, n) == mo < n + 1

VARIABLES
    pc,                 \* "idle", "loop", "returned", "raised", "formatted"
    args,               \* the arguments of the call
    loan_amount, annual_interest, months, emi,
    remaining_balance, amortization, total_interest,
    month,              \* the loop variable's next value
    exception,          \* the exception the call ended with, or "none"
    number, formatted   \* format_number's argument and result

vars == <<pc, args, loan_amount, annual_interest, months, emi,
          remaining_balance, amortization, total_interest, month,
          exception, number, formatted>>

calcVars == <<args, loan_amount, annual_interest, months, emi,
              remaining_balance, amortization, total_interest, month, exception>>

NoArgs ==
    [car_price |-> 0, down_payment_percentage |-> NaN,
     loan_term_years |-> 0, loan_interest_rate |-> NaN]

NoNumber == [t |-> "NoneType", i |-> 0, f |-> NaN]

Init ==
    /\ pc = "idle"
    /\ args = NoArgs
    /\ loan_amount = NaN
    /\ annual_interest = NaN
    /\ months = 0
    /\ emi = NaN
    /\ remaining_balance = NaN
    /\ amortization = <<>>
    /\ total_interest = NaN
    /\ month = 0
    /\ exception = "none"
    /\ number = NoNumber
    /\ formatted = <<>>

\* lines 21-33: the call, up to the loop
Enter(car_price, down_payment_percentage, loan_term_years, loan_interest_rate) ==
    LET la == LoanAmount(car_price, down_payment_percentage)
        ai == AnnualInterest(loan_interest_rate)
        n  == Months(loan_term_years)
        g  == Growth(ai, n)
        d  == EmiDenominator(ai, n)
    IN  /\ pc = "idle"
        /\ args' = [car_price               |-> car_price,
                    down_payment_percentage |-> down_payment_percentage,
                    loan_term_years         |-> loan_term_years,
                    loan_interest_rate      |-> loan_interest_rate]
        /\ loan_amount' = la
        /\ annual_interest' = ai
        /\ months' = n
        /\ amortization' = <<>>
        /\ UNCHANGED <<number, formatted>>
        /\ \/ /\ g.k = "inf"              \* float ** int: OverflowError
              /\ pc' = "raised"
              /\ exception' = "OverflowError"
              /\ UNCHANGED <<emi, remaining_balance, total_interest, month>>
           \/ /\ g.k # "inf"
              /\ IsZero(d)                \* float / 0.0: ZeroDivisionError
              /\ pc' = "raised"
              /\ exception' = "ZeroDivisionError"
              /\ UNCHANGED <<emi, remaining_balance, total_interest, month>>
           \/ /\ g.k # "inf"
              /\ ~IsZero(d)
              /\ pc' = "loop"
              /\ emi' = FDiv(EmiNumerator(la, ai, n), d)
              /\ remaining_balance' = la
              /\ total_interest' = Zero(0)
              /\ month' = 1
              /\ UNCHANGED exception

calculate_loan_details ==
    \E car_price \in CarPrices, dp \in DownPaymentPercents,
       loan_term_years \in LoanTermYears, rate \in InterestRates :
        Enter(car_price, Percent(dp), loan_term_years, rate)

\* lines 35-47: one iteration of the loop
LoopIteration ==
    LET interest_payment  == InterestPayment(remaining_balance, annual_interest)
        principal_payment == PrincipalPayment(emi, interest_payment)
        rb                == FSub(remaining_balance, principal_payment)
    IN  /\ pc = "loop"
        /\ InRange(month, months)
        /\ remaining_balance' = rb
        /\ total_interest' = FAdd(total_interest, interest_payment)
        /\ amortization' = Append(amortization,
                                  Row(month, emi, principal_payment, interest_payment, rb))
        /\ month' = month + 1
        /\ UNCHANGED <<pc, args, loan_amount, annual_interest, months, emi,
                       exception, number, formatted>>

\* line 49
Return ==
    /\ pc = "loop"
    /\ ~InRange(month, months)
    /\ pc' = "returned"
    /\ UNCHANGED <<calcVars, number, formatted>>

(***************************************************************************)
(* format_number.  A string is the sequence of its characters.             *)
(***************************************************************************)

\* the largest number of decimal places of the float arguments
MaxDecimals == 3

\* the float arguments are n / 10^k for n up to this and for FormatNumerators
MaxNumerator == 8

FormatInts == {-1000, -1, 0, 1, 999, 1000, 1000000}

FormatNumerators == 0..MaxNumerator \cup {125, 995, 100999, 12345675, 100000000}

PyInt(n) == [t |-> "int", i |-> n, f |-> NaN]

PyBool(b) == [t |-> "bool", i |-> IF b THEN 1 ELSE 0, f |-> NaN]

PyFloat(x) == [t |-> "float", i |-> 0, f |-> x]

PyOther(type) == [t |-> type, i |-> 0, f |-> NaN]

\* the decimal literal n / 10^k, and its negation
Literal(n, k) == FDiv(FromInt(n), FPow(FromInt(10), k))

Numbers ==
    {PyInt(n) : n \in FormatInts}
    \cup {PyBool(b) : b \in BOOLEAN}
    \cup {PyFloat(Literal(n, k)) : n \in FormatNumerators, k \in 0..MaxDecimals}
    \cup {PyFloat(FNeg(Literal(n, k))) : n \in FormatNumerators, k \in 0..MaxDecimals}
    \cup {PyOther("str"), PyOther("NoneType")}

\* line 12: isinstance(number, (int, float)); bool is a subclass of int
IsIntOrFloat(v) == v.t \in {"int", "bool", "float"}

\* the float a format spec with presentation type f formats
AsFloat(v) == IF v.t = "float" THEN v.f ELSE FromInt(v.i)

\* |x| * 100 rounded to an integer, ties to even: the digits of "%.2f"
Hundredths(x) ==
    LET n == BMulSmall(x.m, 100)
    IN  IF x.e >= 0 THEN BShl(n, x.e)
        ELSE LET q  == BShr(n, -x.e)
                 up == /\ BBit(n, -x.e - 1) = 1
                       /\ (~BLowZero(n, -x.e - 1) \/ BBit(q, 0) = 1)
             IN  IF up THEN BAdd(q, <<1>>) ELSE q

Digit(d) == <<"0", "1", "2", "3", "4", "5", "6", "7", "8", "9">>[d + 1]

Digits3(v) == <<Digit(v \div 100), Digit((v \div 10) % 10), Digit(v % 10)>>

Digits(v) ==
    IF v >= 100 THEN Digits3(v)
    ELSE IF v >= 10 THEN <<Digit(v \div 10), Digit(v % 10)>>
    ELSE <<Digit(v)>>

\* the decimal digits of n with "," between groups of three
RECURSIVE Grouped(_)
Grouped(n) ==
    LET qr == BDivSmall(n, 1000)
    IN  IF qr.q = <<>> THEN Digits(qr.r)
        ELSE Grouped(qr.q) \o <<",">> \o Digits3(qr.r)

\* line 14: f"{x:,.2f}"
FixedPoint(x) ==
    LET sign == IF x.s = 1 THEN <<"-">> ELSE <<>>
        qr   == BDivSmall(Hundredths(x), 100)
    IN  IF x.k = "nan" THEN <<"n", "a", "n">>
        ELSE IF x.k = "inf" THEN sign \o <<"i", "n", "f">>
        ELSE sign \o Grouped(qr.q) \o <<".", Digit(qr.r \div 10), Digit(qr.r % 10)>>

\* str.endswith
EndsWith(str, suffix) ==
    /\ Len(str) >= Len(suffix)
    /\ SubSeq(str, Len(str) - Len(suffix) + 1, Len(str)) = suffix

\* lines 16-17
StripWhole(formatted_num) ==
    IF EndsWith(formatted_num, <<".", "0", "0">>)
    THEN SubSeq(formatted_num, 1, Len(formatted_num) - 3)
    ELSE formatted_num

\* lines 8-19
format_number(v) ==
    IF IsIntOrFloat(v)
    THEN <<"₹">> \o StripWhole(FixedPoint(AsFloat(v)))
    ELSE <<"₹", "0">>

FormatNumber ==
    \E v \in Numbers :
        /\ pc = "idle"
        /\ number' = v
        /\ formatted' = format_number(v)
        /\ pc' = "formatted"
        /\ UNCHANGED calcVars

\* what the call returned: emi, loan_amount, total_interest, amortization
result == <<emi, loan_amount, total_interest, amortization>>

Next == calculate_loan_details \/ LoopIteration \/ Return \/ FormatNumber

Spec == Init /\ [][Next]_vars

(***************************************************************************)
(* The contract of calculate_loan_details                                  *)
(***************************************************************************)

Returned == pc = "returned"

Ended == pc \in {"returned", "raised"}

\* the preconditions: car_price > 0, 0 <= down_payment_percentage < 1,
\* loan_term_years > 0, loan_interest_rate >= 0
ValidInput ==
    /\ args.car_price > 0
    /\ FLe(Zero(0), args.down_payment_percentage)
    /\ FLt(args.down_payment_percentage, FromInt(1))
    /\ args.loan_term_years > 0
    /\ FLe(Zero(0), args.loan_interest_rate)

\* the monthly rate (the variable annual_interest) is greater than zero
PositiveRate == FLt(Zero(0), annual_interest)

Rows == 1..Len(amortization)

\* the rounding tolerance, 0.01
Tolerance == Literal(1, 2)

\* the sum and the product of two floats as real numbers, not rounded
ExactAdd(x, y) ==
    LET r == Sum(x, y)
    IN  IF x.k = "fin" /\ y.k = "fin" THEN Canon(r.s, r.n, r.e) ELSE FAdd(x, y)

ExactSub(x, y) == ExactAdd(x, FNeg(y))

ExactMul(x, y) ==
    LET p == Product(x, y)
    IN  IF x.k = "fin" /\ y.k = "fin" THEN Canon(p.s, p.n, p.e) ELSE FMul(x, y)

\* |x - y| < 0.01, the difference taken exactly
Within(x, y) == FLt(FAbs(ExactSub(x, y)), Tolerance)

\* the exact sum of the Principal of the rows i..j
RECURSIVE PrincipalSum(_, _)
PrincipalSum(i, j) ==
    IF i > j THEN Zero(0)
    ELSE IF i = j THEN amortization[i].Principal
    ELSE LET mid == (i + j) \div 2
         IN  ExactAdd(PrincipalSum(i, mid), PrincipalSum(mid + 1, j))

\* C1: a call with valid arguments and loan_interest_rate = 0 returns, the
\* EMI it returns is loan_amount / months, and the Interest of every row of
\* the schedule is zero.
C1_ZeroRate ==
    (Ended /\ ValidInput /\ IsZero(args.loan_interest_rate)) =>
        /\ Returned
        /\ FEq(emi, FDiv(loan_amount, FromInt(months)))
        /\ \A k \in Rows : IsZero(amortization[k].Interest)

\* C2: a call, whatever its arguments, ends either by returning a summary
\* whose schedule has one row for each of the loan_term_years * 12 months,
\* or by raising InvalidInput; it ends with no other exception.
C2_ReturnsOrInvalidInput ==
    Ended =>
        \/ /\ Returned
           /\ Len(amortization) = args.loan_term_years * 12
           /\ emi.k = "fin" /\ loan_amount.k = "fin" /\ total_interest.k = "fin"
        \/ /\ pc = "raised"
           /\ exception = "InvalidInput"

\* C3: after a call with valid arguments and a positive rate, the Balance of
\* the last row of the schedule is zero to within 0.01.
C3_FinalBalanceZero ==
    (Returned /\ ValidInput /\ PositiveRate) =>
        FLt(FAbs(amortization[Len(amortization)].Balance), Tolerance)

\* C4: after a call with valid arguments and a positive rate, the Principal
\* of the rows sums to loan_amount to within 0.01, and total_interest is
\* emi * months - loan_amount to within 0.01.
C4_PrincipalSum ==
    (Returned /\ ValidInput /\ PositiveRate) =>
        /\ Within(PrincipalSum(1, Len(amortization)), loan_amount)
        /\ Within(total_interest,
                  ExactSub(ExactMul(emi, FromInt(months)), loan_amount))

\* C5: after a call with valid arguments the schedule has
\* loan_term_years * 12 rows and the Month of the k-th row is k.
C5_OneRowPerMonth ==
    (Returned /\ ValidInput) =>
        /\ Len(amortization) = args.loan_term_years * 12
        /\ \A k \in Rows : amortization[k].Month = k

\* a call with valid arguments has returned a schedule of more than a year
C5_Witness ==
    /\ Returned /\ ValidInput
    /\ Len(amortization) > 12
    /\ amortization[Len(amortization)].Month = Len(amortization)

\* C6: after a call with valid arguments and a positive rate, from each row
\* to the next the Interest decreases strictly and the Principal increases
\* strictly, and every row has the same EMI.
C6_Monotone ==
    (Returned /\ ValidInput /\ PositiveRate) =>
        \A k \in Rows :
            /\ FEq(amortization[k].EMI, amortization[1].EMI)
            /\ k > 1 => /\ FLt(amortization[k].Interest, amortization[k - 1].Interest)
                        /\ FLt(amortization[k - 1].Principal, amortization[k].Principal)

\* C7: after a call with valid arguments the Balance of every row is >= 0,
\* the Balance of the first row is at most loan_amount, and the Balance of
\* every later row is at most the Balance of the row before it.
C7_BalanceNonIncreasing ==
    (Returned /\ ValidInput) =>
        \A k \in Rows :
            /\ FLe(Zero(0), amortization[k].Balance)
            /\ FLe(amortization[k].Balance,
                   IF k = 1 THEN loan_amount ELSE amortization[k - 1].Balance)

\* C8: after a call with valid arguments the loan_amount returned is the
\* float car_price * (1 - down_payment_percentage), whatever the term and
\* the rate of the call.
C8_FinancedAmount ==
    (Returned /\ ValidInput) =>
        result[2] = FMul(FromInt(args.car_price),
                         FSub(FromInt(1), args.down_payment_percentage))

\* a call with a down payment, and so with loan_amount < car_price, has returned
C8_Witness ==
    /\ Returned /\ ValidInput
    /\ FLt(Zero(0), args.down_payment_percentage)
    /\ FLt(result[2], FromInt(args.car_price))
    /\ FLt(Zero(0), result[2])

\* the running balance before each row, from the rows' Principal:
\* RunningBalances(k)[j] is loan_amount less the Principal of the rows
\* before row j, subtracted one after the other, for j in 1..k+1
RECURSIVE RunningBalances(_)
RunningBalances(k) ==
    IF k = 0 THEN <<loan_amount>>
    ELSE LET before == RunningBalances(k - 1)
         IN  Append(before, FSub(before[k], amortization[k].Principal))

\* C10 as stated: in the schedule a call returned, whatever its arguments,
\* the EMI of every row is its Principal plus its Interest, the Interest of
\* the first row is loan_amount times the monthly rate, and the Interest of
\* every later row is the monthly rate times the Balance of the row before.
C10_RowsFromRecordedBalance ==
    Returned =>
        \A k \in Rows :
            /\ Within(amortization[k].EMI,
                      ExactAdd(amortization[k].Principal, amortization[k].Interest))
            /\ amortization[k].Interest =
                   FMul(IF k = 1 THEN loan_amount ELSE amortization[k - 1].Balance,
                        annual_interest)

\* C10 as amended: in the schedule a call returned, the Principal of every
\* row is its EMI less its Interest, the Interest of every row is the monthly
\* rate times the running balance before the row, which is not floored, and
\* the Balance of the row is the running balance after it floored at zero.
C10_RowsFromRunningBalance ==
    Returned =>
        LET running == RunningBalances(Len(amortization))
        IN  \A k \in Rows :
                /\ amortization[k].Principal =
                       FSub(amortization[k].EMI, amortization[k].Interest)
                /\ amortization[k].Interest = FMul(running[k], annual_interest)
                /\ amortization[k].Balance =
                       IF FLt(Zero(0), running[k + 1]) THEN running[k + 1] ELSE Zero(0)

\* a call has returned a schedule with a row whose Interest is not zero
\* though the Balance of the row before it is zero
C10_Witness ==
    /\ Returned
    /\ \E k \in Rows :
          /\ k > 1
          /\ IsZero(amortization[k - 1].Balance)
          /\ ~IsZero(amortization[k].Interest)

(***************************************************************************)
(* The contract of format_number                                           *)
(***************************************************************************)

\* v is a number that "%.2f" renders with the digits 0.00
RendersZero(v) ==
    /\ IsIntOrFloat(v)
    /\ AsFloat(v).k = "fin"
    /\ Hundredths(AsFloat(v)) = <<>>

\* C9: format_number returns the symbol followed by the number with
\* separators and two decimals, less a closing ".00"; for 0, for a number
\* that rounds to zero at two decimals and for an argument that is not a
\* number it returns the symbol followed by "0".
C9_Format ==
    pc = "formatted" =>
        /\ formatted[1] = "₹"
        /\ ~EndsWith(formatted, <<".", "0", "0">>)
        /\ \A i \in 1..Len(formatted) : formatted[i] = "." => i = Len(formatted) - 2
        /\ (RendersZero(number) \/ ~IsIntOrFloat(number)) => formatted = <<"₹", "0">>

=============================================================================
